---- MODULE Spec2Model ----
(***************************************************************************)
(* The ARN builder of src/builder.rs: the typed handle ArnBuilder<State>   *)
(* (new / with / build) over the private accumulator PrivateArnBuilder     *)
(* (new / add_part / build).                                               *)
(*                                                                         *)
(* Two specifications are given.  Spec drives the public typed API, whose  *)
(* legality is decided by the type of the handle.  PrivSpec drives the     *)
(* private accumulator directly, with any prefix token, which is the       *)
(* "dynamic positional-inference path".                                    *)
(*                                                                         *)
(* A string is a sequence of one-character strings.  An Option is a        *)
(* sequence of length at most one: <<>> is None and <<v>> is Some(v).      *)
(***************************************************************************)
EXTENDS Naturals, Sequences, FiniteSets

VARIABLES
    builder,    \* the PrivateArnBuilder held by the handle: its five fields
    state,      \* the State type parameter of the ArnBuilder handle
    live,       \* TRUE while a handle exists (with and build consume self)
    result,     \* what the last call returned
    lastCall,   \* the last call made and its arguments
    calls,      \* the with calls of this chain that returned Ok, in order
    text,       \* Option: the string an identifier was formatted to, or the
                \* raw string handed to the parser
    parsed,     \* what ArnParser::parse returned
    input       \* the raw string of the parser as its `:`-segments, each a
                \* sequence of `/`-pieces (<<>> when there is no raw string)

vars == <<builder, state, live, result, lastCall, calls, text, parsed, input>>

\* The longest Parts sequence the model lets a builder accumulate.
MaxParts == 2

\* The most `:`-segments of a raw string handed to the parser.
MaxSegs == 6

\* The most `/`-pieces of the fifth segment of a raw string.
MaxPieces == 3

----------------------------------------------------------------------------
(* Strings and options *)

None == <<>>
Some(v) == <<v>>
is_some(o) == Len(o) = 1
is_none(o) == Len(o) = 0
unwrap(o) == o[1]

\* The raw values handed to the builder: the empty string, two plain
\* strings, one with a hyphen, and two holding a character outside
\* [A-Za-z0-9-_], the delimiters of the string grammar.
Values ==
    { <<>>, <<"a">>, <<"b">>, <<"a", "-">>, <<"a", "/">>, <<"a", ":">> }

\* The characters [A-Za-z0-9-_] that Domain and Root accept.
AllowedChars ==
    {"a", "b", "c", "d", "e", "f", "g", "h", "i", "j", "k", "l", "m",
     "n", "o", "p", "q", "r", "s", "t", "u", "v", "w", "x", "y", "z",
     "A", "B", "C", "D", "E", "F", "G", "H", "I", "J", "K", "L", "M",
     "N", "O", "P", "Q", "R", "S", "T", "U", "V", "W", "X", "Y", "Z",
     "0", "1", "2", "3", "4", "5", "6", "7", "8", "9",
     "-", "_"}

----------------------------------------------------------------------------
(* The component kinds: prefix token, next state and validation rule *)

Kinds == {"Domain", "Category", "Account", "Root", "Part", "Parts"}

DomainPrefix == "arn:"

\* ArnComponent::prefix of each kind.
prefix(kind) ==
    CASE kind = "Domain" -> DomainPrefix
      [] kind = "Category" -> ""
      [] kind = "Account" -> ""
      [] kind = "Root" -> ""
      [] kind = "Part" -> ""
      [] kind = "Parts" -> ":"

\* ArnComponent::NextState of each kind.
NextState(kind) ==
    CASE kind = "Domain" -> "Category"
      [] kind = "Category" -> "Account"
      [] kind = "Account" -> "Root"
      [] kind = "Root" -> "Part"
      [] kind = "Part" -> "Parts"
      [] kind = "Parts" -> "Parts"

\* The prefix tokens handed to add_part when it is driven directly: those
\* of the kinds and one that no kind declares.
Prefixes == {DomainPrefix, "", ":", "x"}

NonEmpty(v) == Len(v) > 0
OnlyAllowedChars(v) == \A i \in 1..Len(v) : v[i] \in AllowedChars

\* The validation rule of each kind.
ValidFor(kind, v) ==
    CASE kind = "Domain" -> NonEmpty(v) /\ OnlyAllowedChars(v)
      [] kind = "Root" -> NonEmpty(v) /\ OnlyAllowedChars(v)
      [] kind = "Category" -> NonEmpty(v)
      [] kind = "Account" -> NonEmpty(v)
      [] kind = "Part" -> NonEmpty(v)
      [] kind = "Parts" -> NonEmpty(v)

----------------------------------------------------------------------------
(* Results *)

NoArn == <<>>

OkBuilder == [tag |-> "Ok", etype |-> "", earg |-> "", arn |-> NoArn]
Err(etype, earg) == [tag |-> "Err", etype |-> etype, earg |-> earg, arn |-> NoArn]
OkArn(arn) == [tag |-> "Arn", etype |-> "", earg |-> "", arn |-> <<arn>>]
NoResult == [tag |-> "None", etype |-> "", earg |-> "", arn |-> NoArn]

\* A constructor's Result: the wrapped value or the error.
Wrapped(v) == [ok |-> TRUE, val |-> v, etype |-> "", earg |-> ""]
Rejected(kind) == [ok |-> FALSE, val |-> <<>>, etype |-> "ValidationError", earg |-> kind]

\* Domain::new, Root::new, Part::new return a Result, which add_part
\* unwraps with `?`.
DomainNew(v) == IF ValidFor("Domain", v) THEN Wrapped(v) ELSE Rejected("Domain")
RootNew(v) == IF ValidFor("Root", v) THEN Wrapped(v) ELSE Rejected("Root")
PartNew(v) == IF ValidFor("Part", v) THEN Wrapped(v) ELSE Rejected("Part")

\* Category::new and Account::new return the component itself: add_part
\* stores their value with no `?`, so no value is refused.
CategoryNew(v) == v
AccountNew(v) == v

\* Parts::add_part: the sequence with the part added at its end.
PartsAddPart(parts, p) == Append(parts, p)

\* Arn::new
ArnNew(domain, category, account, root, parts) ==
    [domain |-> domain, category |-> category, account |-> account,
     root |-> root, parts |-> parts]

----------------------------------------------------------------------------
(* PrivateArnBuilder *)

\* PrivateArnBuilder::new
PrivateNew ==
    [domain |-> None, category |-> None, account |-> None, root |-> None,
     parts |-> <<>>]

AddOk(b) == [ok |-> TRUE, b |-> b, etype |-> "", earg |-> ""]
AddErr(b, etype, earg) == [ok |-> FALSE, b |-> b, etype |-> etype, earg |-> earg]

\* AppendPart with the new part put in front of the others.
AppendPartAtFront(self, part) ==
    LET p == PartNew(part) IN
    IF p.ok THEN AddOk([self EXCEPT !.parts = <<p.val>> \o self.parts])
    ELSE AddErr(self, p.etype, p.earg)

\* The arm of add_part that wraps the value as a Part and appends it.
AppendPart(self, part) ==
    LET p == PartNew(part) IN
    IF p.ok THEN AddOk([self EXCEPT !.parts = PartsAddPart(self.parts, p.val)])
    ELSE AddErr(self, p.etype, p.earg)

\* AddPositional without its root conditional: the value after Account
\* falls through to the parts.
AddPositionalNoRootArm(self, part) ==
    IF is_some(self.domain) /\ is_none(self.category)
    THEN AddOk([self EXCEPT !.category = Some(CategoryNew(part))])
    ELSE IF is_some(self.category) /\ is_none(self.account)
    THEN AddOk([self EXCEPT !.account = Some(AccountNew(part))])
    ELSE AppendPart(self, part)

\* AddPositional whose account conditional does not ask for category.
AddPositionalAccountUnguarded(self, part) ==
    IF is_some(self.domain) /\ is_none(self.category)
    THEN AddOk([self EXCEPT !.category = Some(CategoryNew(part))])
    ELSE IF is_none(self.account)
    THEN AddOk([self EXCEPT !.account = Some(AccountNew(part))])
    ELSE IF is_some(self.account) /\ is_none(self.root)
    THEN LET r == RootNew(part) IN
         IF r.ok THEN AddOk([self EXCEPT !.root = Some(r.val)])
         ELSE AddErr(self, r.etype, r.earg)
    ELSE AppendPart(self, part)

\* AddPositional whose root conditional does not ask for account.
AddPositionalRootUnguarded(self, part) ==
    IF is_some(self.domain) /\ is_none(self.category)
    THEN AddOk([self EXCEPT !.category = Some(CategoryNew(part))])
    ELSE IF is_some(self.category) /\ is_none(self.account)
    THEN AddOk([self EXCEPT !.account = Some(AccountNew(part))])
    ELSE IF is_none(self.root)
    THEN LET r == RootNew(part) IN
         IF r.ok THEN AddOk([self EXCEPT !.root = Some(r.val)])
         ELSE AddErr(self, r.etype, r.earg)
    ELSE AppendPart(self, part)

\* AddPositional whose category conditional does not ask whether the
\* slot is still empty.
AddPositionalOverwrites(self, part) ==
    IF is_some(self.domain)
    THEN AddOk([self EXCEPT !.category = Some(CategoryNew(part))])
    ELSE AppendPart(self, part)

\* The "" arm of add_part: the chained conditionals that pick the slot.
AddPositional(self, part) ==
    IF is_some(self.domain) /\ is_none(self.category)
    THEN AddOk([self EXCEPT !.category = Some(CategoryNew(part))])
    ELSE IF is_some(self.category) /\ is_none(self.account)
    THEN AddOk([self EXCEPT !.account = Some(AccountNew(part))])
    ELSE IF is_some(self.account) /\ is_none(self.root)
    THEN LET r == RootNew(part) IN
         IF r.ok THEN AddOk([self EXCEPT !.root = Some(r.val)])
         ELSE AddErr(self, r.etype, r.earg)
    ELSE AppendPart(self, part)

\* add_part whose catch-all arm appends the value as a part instead of
\* returning InvalidPrefix.
add_part_UnknownAsPart(self, pfx, part) ==
    IF pfx = DomainPrefix
    THEN LET d == DomainNew(part) IN
         IF d.ok THEN AddOk([self EXCEPT !.domain = Some(d.val)])
         ELSE AddErr(self, d.etype, d.earg)
    ELSE IF pfx = "" THEN AddPositional(self, part)
    ELSE AppendPart(self, part)

\* add_part whose Domain arm goes through the positional conditionals.
add_part_DomainPositional(self, pfx, part) ==
    IF pfx = DomainPrefix \/ pfx = "" THEN AddPositional(self, part)
    ELSE IF pfx = ":" THEN AppendPart(self, part)
    ELSE AddErr(self, "InvalidPrefix", pfx)

\* PrivateArnBuilder::add_part.  On an error the builder is dropped with
\* its fields as they were: every `?` returns before the assignment.
add_part(self, pfx, part) ==
    IF pfx = DomainPrefix
    THEN LET d == DomainNew(part) IN
         IF d.ok THEN AddOk([self EXCEPT !.domain = Some(d.val)])
         ELSE AddErr(self, d.etype, d.earg)
    ELSE IF pfx = "" THEN AddPositional(self, part)
    ELSE IF pfx = ":" THEN AppendPart(self, part)
    ELSE AddErr(self, "InvalidPrefix", pfx)

\* build that looks at root before the other three fields.
build_RootFirst(self) ==
    IF is_none(self.root) THEN Err("MissingPart", "root")
    ELSE IF is_none(self.domain) THEN Err("MissingPart", "domain")
    ELSE IF is_none(self.category) THEN Err("MissingPart", "category")
    ELSE IF is_none(self.account) THEN Err("MissingPart", "account")
    ELSE OkArn(ArnNew(unwrap(self.domain), unwrap(self.category),
                      unwrap(self.account), unwrap(self.root), self.parts))

\* build that hands category and account to Arn::new in each other's place.
build_SwapCategoryAccount(self) ==
    IF is_none(self.domain) THEN Err("MissingPart", "domain")
    ELSE IF is_none(self.category) THEN Err("MissingPart", "category")
    ELSE IF is_none(self.account) THEN Err("MissingPart", "account")
    ELSE IF is_none(self.root) THEN Err("MissingPart", "root")
    ELSE OkArn(ArnNew(unwrap(self.domain), unwrap(self.account),
                      unwrap(self.category), unwrap(self.root), self.parts))

\* PrivateArnBuilder::build
build(self) ==
    IF is_none(self.domain) THEN Err("MissingPart", "domain")
    ELSE IF is_none(self.category) THEN Err("MissingPart", "category")
    ELSE IF is_none(self.account) THEN Err("MissingPart", "account")
    ELSE IF is_none(self.root) THEN Err("MissingPart", "root")
    ELSE OkArn(ArnNew(unwrap(self.domain), unwrap(self.category),
                      unwrap(self.account), unwrap(self.root), self.parts))

----------------------------------------------------------------------------
(* The string grammar: formatting and parsing *)

Scheme == <<"a", "r", "n">>

RECURSIVE Join(_, _)
\* The strings of a sequence joined by the delimiter ch.
Join(strs, ch) ==
    IF Len(strs) = 0 THEN <<>>
    ELSE IF Len(strs) = 1 THEN strs[1]
    ELSE strs[1] \o <<ch>> \o Join(Tail(strs), ch)

RECURSIVE SplitOn(_, _)
\* str::split: the pieces of s between the occurrences of ch.
SplitOn(s, ch) ==
    IF \A i \in 1..Len(s) : s[i] # ch THEN <<s>>
    ELSE LET i == CHOOSE k \in 1..Len(s) :
                      s[k] = ch /\ \A j \in 1..(k - 1) : s[j] # ch
         IN <<SubSeq(s, 1, i - 1)>> \o SplitOn(SubSeq(s, i + 1, Len(s)), ch)

\* Display of Parts: the parts joined by `/`, the empty string for none.
FormatParts(parts) == Join(parts, "/")

\* Display of Arn: arn:<domain>:<category>:<account>:<root>[/<part>]*
FormatArn(arn) ==
    Join(<<Scheme, arn.domain, arn.category, arn.account, arn.root>>, ":")
        \o (IF Len(arn.parts) = 0 THEN <<>> ELSE <<"/">> \o FormatParts(arn.parts))

\* Arn::default: the fixed fallback values.
DefaultArn ==
    ArnNew(<<"a", "k", "t", "o", "n">>, <<"s", "y", "s", "t", "e", "m">>,
           <<"d", "e", "f", "a", "u", "l", "t">>, <<"r", "o", "o", "t">>, <<>>)

RECURSIVE ParsePartsSkipEmpty(_, _)
\* ParseParts that drops an empty piece instead of failing on it.
ParsePartsSkipEmpty(pieces, acc) ==
    IF Len(pieces) = 0 THEN [ok |-> TRUE, val |-> acc, etype |-> "", earg |-> ""]
    ELSE IF Len(pieces[1]) = 0 THEN ParsePartsSkipEmpty(Tail(pieces), acc)
    ELSE ParsePartsSkipEmpty(Tail(pieces), PartsAddPart(acc, pieces[1]))

RECURSIVE ParseParts(_, _)
\* The pieces after the root wrapped as Part values and appended in order;
\* the first one that fails validation ends the parse with its error.
ParseParts(pieces, acc) ==
    IF Len(pieces) = 0 THEN [ok |-> TRUE, val |-> acc, etype |-> "", earg |-> ""]
    ELSE LET p == PartNew(pieces[1]) IN
         IF p.ok THEN ParseParts(Tail(pieces), PartsAddPart(acc, p.val))
         ELSE [ok |-> FALSE, val |-> acc, etype |-> p.etype, earg |-> p.earg]

\* The parse of the fifth segment: root, then the parts.
ParseTail(domain, category, account, tail) ==
    LET pieces == SplitOn(tail, "/")
        r == RootNew(pieces[1])
    IN IF ~r.ok THEN Err(r.etype, r.earg)
       ELSE LET ps == ParseParts(Tail(pieces), <<>>) IN
            IF ~ps.ok THEN Err(ps.etype, ps.earg)
            ELSE OkArn(ArnNew(domain, category, account, r.val, ps.val))

\* parse that reads the third segment as account and the fourth as category.
parse_SwapCategoryAccount(s) ==
    LET segs == SplitOn(s, ":") IN
    IF segs[1] # Scheme THEN Err("InvalidFormat", "")
    ELSE IF Len(segs) > 5 THEN Err("InvalidFormat", "")
    ELSE IF Len(segs) < 5
    THEN Err("MissingPart", <<"domain", "category", "account", "root">>[Len(segs)])
    ELSE LET d == DomainNew(segs[2]) IN
         IF ~d.ok THEN Err(d.etype, d.earg)
         ELSE ParseTail(d.val, CategoryNew(segs[4]), AccountNew(segs[3]), segs[5])

\* parse that never counts the segments beyond the fifth: they stay in the
\* tail and reach the validation of Root.
parse_NoSegmentCount(s) ==
    LET segs == SplitOn(s, ":") IN
    IF segs[1] # Scheme THEN Err("InvalidFormat", "")
    ELSE IF Len(segs) < 5
    THEN Err("MissingPart", <<"domain", "category", "account", "root">>[Len(segs)])
    ELSE LET d == DomainNew(segs[2]) IN
         IF ~d.ok THEN Err(d.etype, d.earg)
         ELSE ParseTail(d.val, CategoryNew(segs[3]), AccountNew(segs[4]),
                        Join(SubSeq(segs, 5, Len(segs)), ":"))

\* ArnParser::parse
parse(s) ==
    LET segs == SplitOn(s, ":") IN
    IF segs[1] # Scheme THEN Err("InvalidFormat", "")
    ELSE IF Len(segs) > 5 THEN Err("InvalidFormat", "")
    ELSE IF Len(segs) < 5
    THEN Err("MissingPart", <<"domain", "category", "account", "root">>[Len(segs)])
    ELSE LET d == DomainNew(segs[2]) IN
         IF ~d.ok THEN Err(d.etype, d.earg)
         ELSE ParseTail(d.val, CategoryNew(segs[3]), AccountNew(segs[4]), segs[5])

----------------------------------------------------------------------------
(* ArnBuilder: the typed handle *)

Call(op, key, val) == [op |-> op, key |-> key, val |-> val]

\* with without its where clause: any kind is accepted in any state.
WithAcceptsAnyKind(T, N) == T \in Kinds /\ N \in Kinds

\* The where clause of with: N: ArnComponent<NextState = T::NextState>.
WithAccepts(T, N) == T \in Kinds /\ N \in Kinds /\ NextState(N) = NextState(T)

\* build offered one state early, on the handle still waiting for Root.
BuildAvailableFromRoot(T) == T \in {"Root", "Part", "Parts"}

\* The states whose handle has a build method.
BuildAvailable(T) == T \in {"Part", "Parts"}

Init ==
    /\ builder = PrivateNew
    /\ state = "Domain"
    /\ live = TRUE
    /\ result = NoResult
    /\ lastCall = Call("new", "", <<>>)
    /\ calls = <<>>
    /\ text = None
    /\ parsed = NoResult
    /\ input = <<>>

\* ArnBuilder::new: a fresh handle in the Domain state.
New ==
    /\ builder' = PrivateNew
    /\ state' = "Domain"
    /\ live' = TRUE
    /\ result' = NoResult
    /\ lastCall' = Call("new", "", <<>>)
    /\ calls' = <<>>
    /\ text' = None
    /\ parsed' = NoResult
    /\ UNCHANGED input

\* ArnBuilder::with::<N>(part)
With ==
    \E N \in Kinds, part \in Values :
        /\ live
        /\ WithAccepts(state, N)
        /\ LET r == add_part(builder, prefix(N), part) IN
           /\ Len(r.b.parts) <= MaxParts
           /\ lastCall' = Call("with", N, part)
           /\ builder' = r.b
           /\ IF r.ok
              THEN /\ state' = NextState(N)
                   /\ live' = TRUE
                   /\ result' = OkBuilder
                   /\ calls' = Append(calls, <<N, part>>)
              ELSE /\ state' = state
                   /\ live' = FALSE
                   /\ result' = Err(r.etype, r.earg)
                   /\ calls' = calls
        /\ UNCHANGED <<text, parsed, input>>

\* ArnBuilder::build, on a handle in the Part or the Parts state.
Build ==
    /\ live
    /\ BuildAvailable(state)
    /\ result' = build(builder)
    /\ lastCall' = Call("build", "", <<>>)
    /\ live' = FALSE
    /\ UNCHANGED <<builder, state, calls, text, parsed, input>>

\* Display of the identifier that build or Arn::default returned.
Format ==
    /\ result.tag = "Arn"
    /\ text' = Some(FormatArn(result.arn[1]))
    /\ lastCall' = Call("format", "", <<>>)
    /\ parsed' = NoResult
    /\ UNCHANGED <<builder, state, live, result, calls, input>>

\* ArnParser::new(text).parse()
Parse ==
    /\ is_some(text)
    /\ parsed' = parse(unwrap(text))
    /\ lastCall' = Call("parse", "", <<>>)
    /\ UNCHANGED <<builder, state, live, result, calls, text, input>>

Next == New \/ With \/ Build \/ Format \/ Parse

Spec == Init /\ [][Next]_vars

----------------------------------------------------------------------------
(* PrivateArnBuilder driven directly *)

PrivInit ==
    /\ builder = PrivateNew
    /\ state = "Private"
    /\ live = TRUE
    /\ result = NoResult
    /\ lastCall = Call("new", "", <<>>)
    /\ calls = <<>>
    /\ text = None
    /\ parsed = NoResult
    /\ input = <<>>

\* PrivateArnBuilder::new
PrivNew ==
    /\ builder' = PrivateNew
    /\ live' = TRUE
    /\ result' = NoResult
    /\ lastCall' = Call("new", "", <<>>)
    /\ UNCHANGED <<state, calls, text, parsed, input>>

\* PrivateArnBuilder::add_part(prefix, part), with any prefix token
AddPart ==
    \E pfx \in Prefixes, part \in Values :
        /\ live
        /\ LET r == add_part(builder, pfx, part) IN
           /\ Len(r.b.parts) <= MaxParts
           /\ lastCall' = Call("add_part", pfx, part)
           /\ builder' = r.b
           /\ live' = r.ok
           /\ result' = IF r.ok THEN OkBuilder ELSE Err(r.etype, r.earg)
        /\ UNCHANGED <<state, calls, text, parsed, input>>

\* PrivateArnBuilder::build
PrivBuild ==
    /\ live
    /\ result' = build(builder)
    /\ lastCall' = Call("build", "", <<>>)
    /\ live' = FALSE
    /\ UNCHANGED <<builder, state, calls, text, parsed, input>>

PrivNext == PrivNew \/ AddPart \/ PrivBuild

PrivSpec == PrivInit /\ [][PrivNext]_vars

----------------------------------------------------------------------------
(* ArnParser driven on raw strings, and the default identifier *)

\* The pieces raw strings are assembled from: they hold no delimiter.
HeadPieces == {Scheme, <<"a">>, <<>>}
TailPieces == {<<"a">>, <<"b">>, <<>>}

\* The `/`-pieces of the fifth segment.
TailSegs == UNION {[1..k -> TailPieces] : k \in 1..MaxPieces}

\* The raw strings, each as its `:`-segments and each segment as its
\* `/`-pieces: the fifth segment has up to MaxPieces pieces, the others one.
HeadSegs == {<<h>> : h \in HeadPieces}
Inputs ==
    UNION {IF n < 5 THEN [1..n -> HeadSegs]
           ELSE {h \o <<t>> \o e :
                    h \in [1..4 -> HeadSegs], t \in TailSegs, e \in [1..(n - 5) -> HeadSegs]}
           : n \in 1..MaxSegs}

\* The string an input stands for.
InputText(in) == Join([i \in 1..Len(in) |-> Join(in[i], "/")], ":")

ParseInit ==
    /\ builder = PrivateNew
    /\ state = "Parser"
    /\ live = FALSE
    /\ result = NoResult
    /\ lastCall = Call("new", "", <<>>)
    /\ calls = <<>>
    /\ input \in Inputs
    /\ text = Some(InputText(input))
    /\ parsed = NoResult

\* Arn::default()
Default ==
    /\ result' = OkArn(DefaultArn)
    /\ lastCall' = Call("default", "", <<>>)
    /\ text' = None
    /\ parsed' = NoResult
    /\ input' = <<>>
    /\ UNCHANGED <<builder, state, live, calls>>

ParseNext == Parse \/ Default \/ Format

ParseSpec == ParseInit /\ [][ParseNext]_vars

----------------------------------------------------------------------------
(* Shared vocabulary of the properties *)

Fields == <<"domain", "category", "account", "root">>

\* The kinds that supply the component a handle in state T is waiting for.
ExpectedKinds(T) == IF T \in {"Part", "Parts"} THEN {"Part", "Parts"} ELSE {T}

\* The kind the i-th accepted with call of a chain has to carry.
KindsAt(i) ==
    CASE i = 1 -> {"Domain"}
      [] i = 2 -> {"Category"}
      [] i = 3 -> {"Account"}
      [] i = 4 -> {"Root"}
      [] OTHER -> {"Part", "Parts"}

AllSet(b) ==
    is_some(b.domain) /\ is_some(b.category) /\ is_some(b.account) /\ is_some(b.root)

\* The first unset field in the order domain, category, account, root
\* (0 when all four are set).
FirstUnset(b) ==
    IF \A i \in 1..4 : is_some(b[Fields[i]]) THEN 0
    ELSE CHOOSE i \in 1..4 :
            /\ is_none(b[Fields[i]])
            /\ \A j \in 1..(i - 1) : is_some(b[Fields[j]])

\* The values of the accepted with calls from the fifth on.
PartValues == [i \in 1..(Len(calls) - 4) |-> calls[i + 4][2]]

----------------------------------------------------------------------------
(* Properties of the typed API (Spec) *)

\* C1: every with call the typed API accepts carries the kind the current
\* state of the handle expects, so the accepted calls of a chain supply
\* Domain, Category, Account, Root and then only part values, in that order.
C1_TypedOrder ==
    /\ [](\A i \in 1..Len(calls) : calls[i][1] \in KindsAt(i))
    /\ [][lastCall'.op = "with" => lastCall'.key \in ExpectedKinds(state)]_vars

C1_Witness ==
    /\ Len(calls) = 6
    /\ calls[5][1] = "Part"
    /\ calls[6][1] = "Part"

\* C2: build is called only on a handle whose chain has had a Root value
\* accepted; no state before that offers it.
C2_BuildNeedsRoot ==
    lastCall.op = "build" =>
        /\ \E i \in 1..Len(calls) : calls[i][1] = "Root"
        /\ is_some(builder.root)

C2_Witness ==
    /\ lastCall.op = "build"
    /\ state = "Part"
    /\ Len(calls) = 4

\* C3: through the typed API build never returns MissingPart: it returns
\* the assembled identifier.
C3_TypedBuildSucceeds ==
    lastCall.op = "build" => result.tag = "Arn" /\ result.etype # "MissingPart"

C3_Witness ==
    /\ lastCall.op = "build"
    /\ result.tag = "Arn"
    /\ state = "Parts"

\* C7 as claimed: every identifier build returns has its four mandatory
\* fields non-empty.
C7_MandatoryNonEmpty ==
    result.tag = "Arn" =>
        LET arn == result.arn[1] IN
        /\ NonEmpty(arn.domain)
        /\ NonEmpty(arn.category)
        /\ NonEmpty(arn.account)
        /\ NonEmpty(arn.root)

\* C8 as claimed: a with call whose value fails the rule of its kind returns
\* a validation error and leaves no handle to continue the chain.
C8_WithValidates ==
    (lastCall.op = "with" /\ ~ValidFor(lastCall.key, lastCall.val)) =>
        /\ result.tag = "Err"
        /\ result.etype = "ValidationError"
        /\ ~live

\* C10: the identifier a typed chain builds holds the values of its Domain,
\* Category, Account and Root calls, and its Parts are the values of the
\* later calls in the order they were made.
C10_BuiltFromCalls ==
    result.tag = "Arn" =>
        LET arn == result.arn[1] IN
        /\ Len(calls) >= 4
        /\ calls[1] = <<"Domain", arn.domain>>
        /\ calls[2] = <<"Category", arn.category>>
        /\ calls[3] = <<"Account", arn.account>>
        /\ calls[4] = <<"Root", arn.root>>
        /\ arn.parts = PartValues

C10_Witness ==
    /\ result.tag = "Arn"
    /\ Len(result.arn[1].parts) = 2
    /\ result.arn[1].parts[1] # result.arn[1].parts[2]
    /\ result.arn[1].category # result.arn[1].account

\* C17: the state of the handle agrees with the slots: the handle waiting
\* for Domain has no slot set, the one waiting for Category has only domain,
\* the one waiting for Account has domain and category, the one waiting for
\* Root has those and account, and a handle that offers build has all four.
C17_StateAgreesWithSlots ==
    LET n == IF FirstUnset(builder) = 0 THEN 4 ELSE FirstUnset(builder) - 1 IN
    /\ \A j \in (n + 1)..4 : is_none(builder[Fields[j]])
    /\ state = "Domain" => n = 0
    /\ state = "Category" => n = 1
    /\ state = "Account" => n = 2
    /\ state = "Root" => n = 3
    /\ BuildAvailable(state) => n = 4
    /\ (n < 4) => Len(builder.parts) = 0

C17_Witness ==
    /\ live
    /\ state = "Root"
    /\ is_some(builder.account)
    /\ is_none(builder.root)
    /\ lastCall.op = "with"

----------------------------------------------------------------------------
(* Properties of the private accumulator (PrivSpec) *)

\* C4 as claimed: for each field, build fails with MissingPart naming it
\* exactly when that field is unset.
C4_MissingExactlyWhenUnset ==
    lastCall.op = "build" =>
        \A i \in 1..4 :
            (result = Err("MissingPart", Fields[i])) <=> is_none(builder[Fields[i]])

\* C4, amended: for each field, build fails with MissingPart naming it
\* exactly when that field is unset and every field before it is set.
C4_MissingFirstUnset ==
    lastCall.op = "build" =>
        \A i \in 1..4 :
            (result = Err("MissingPart", Fields[i])) <=>
                /\ is_none(builder[Fields[i]])
                /\ \A j \in 1..(i - 1) : is_some(builder[Fields[j]])

C4_Witness ==
    /\ lastCall.op = "build"
    /\ result = Err("MissingPart", "account")
    /\ is_none(builder.root)

\* C5 as claimed: Parts is non-empty only once all four mandatory slots
\* are filled.
C5_PartsOnlyAfterFour ==
    Len(builder.parts) > 0 => AllSet(builder)

\* C6 as claimed: an empty-prefix value supplied while some mandatory slot
\* is unfilled fills the first unfilled slot, and only that.
C6_EmptyPrefixFillsNext ==
    [][(lastCall'.op = "add_part" /\ lastCall'.key = "" /\ ~AllSet(builder)) =>
          builder' = [builder EXCEPT ![Fields[FirstUnset(builder)]] = Some(lastCall'.val)]
      ]_vars

\* C9: add_part with a prefix token that is neither Domain's, nor empty,
\* nor ":" returns InvalidPrefix carrying the token and changes no field.
C9_InvalidPrefix ==
    [][(lastCall'.op = "add_part" /\ lastCall'.key \notin {DomainPrefix, "", ":"}) =>
          /\ result' = Err("InvalidPrefix", lastCall'.key)
          /\ builder' = builder
          /\ ~live'
      ]_vars

C9_Witness ==
    /\ lastCall.op = "add_part"
    /\ result = Err("InvalidPrefix", "x")
    /\ is_some(builder.domain)

\* C16: when build on the private builder fails, the field it names is the
\* first unset one in the order domain, category, account, root, and every
\* field after it is unset too.
C16_FailureNamesFirstUnset ==
    (lastCall.op = "build" /\ result.tag = "Err") =>
        /\ result.etype = "MissingPart"
        /\ FirstUnset(builder) # 0
        /\ result.earg = Fields[FirstUnset(builder)]
        /\ \A j \in (FirstUnset(builder) + 1)..4 : is_none(builder[Fields[j]])

C16_Witness ==
    /\ lastCall.op = "build"
    /\ result = Err("MissingPart", "category")
    /\ is_some(builder.domain)
    /\ Len(builder.parts) > 0

\* C18: after any add_part calls with any prefixes the filled slots form a
\* prefix of the order: category set implies domain set, account set
\* implies category set, root set implies account set.
C18_SlotsFormPrefix ==
    /\ is_some(builder.category) => is_some(builder.domain)
    /\ is_some(builder.account) => is_some(builder.category)
    /\ is_some(builder.root) => is_some(builder.account)

C18_Witness ==
    /\ lastCall.op = "add_part"
    /\ is_some(builder.account)
    /\ is_none(builder.root)
    /\ Len(builder.parts) = 1

\* C19: a successful add_part either sets exactly one mandatory slot, which
\* for category, account and root was empty before, or appends exactly one
\* part at the end of Parts; everything else is left as it was.
C19_OneChange ==
    [][(lastCall'.op = "add_part" /\ result'.tag = "Ok") =>
          \/ \E i \in 1..4 :
                /\ builder' = [builder EXCEPT ![Fields[i]] = Some(lastCall'.val)]
                /\ i > 1 => is_none(builder[Fields[i]])
          \/ builder' = [builder EXCEPT !.parts = Append(builder.parts, lastCall'.val)]
      ]_vars

C19_Witness ==
    /\ lastCall.op = "add_part"
    /\ result.tag = "Ok"
    /\ AllSet(builder)
    /\ Len(builder.parts) = 2
    /\ builder.parts[2] = lastCall.val
    /\ builder.parts[1] # builder.parts[2]

----------------------------------------------------------------------------
(* Properties of formatting and parsing *)

RECURSIVE SlashEach(_)
\* `/p` for each part p, in order.
SlashEach(parts) ==
    IF Len(parts) = 0 THEN <<>>
    ELSE <<"/">> \o parts[1] \o SlashEach(Tail(parts))

StartsWith(t, h) == Len(t) >= Len(h) /\ SubSeq(t, 1, Len(h)) = h
EndsWith(t, e) == Len(t) >= Len(e) /\ SubSeq(t, Len(t) - Len(e) + 1, Len(t)) = e

\* arn:d:c:a:r for the values of the first four accepted with calls.
CallsHead ==
    Scheme \o <<":">> \o calls[1][2] \o <<":">> \o calls[2][2]
           \o <<":">> \o calls[3][2] \o <<":">> \o calls[4][2]

\* C11 (Spec): the identifier built from d, c, a, r and p1..pn formats to
\* arn:d:c:a:r followed by /pi for each part in order; with no parts the
\* string is arn:d:c:a:r with no trailing `/`, with parts it ends with /pn.
C11_FormatShape ==
    lastCall.op = "format" =>
        LET t == unwrap(text)
            ps == PartValues
        IN /\ StartsWith(t, CallsHead)
           /\ t = CallsHead \o SlashEach(ps)
           /\ Len(ps) = 0 => (t = CallsHead /\ t[Len(t)] # "/")
           /\ Len(ps) > 0 => EndsWith(t, <<"/">> \o ps[Len(ps)])

C11_Witness ==
    /\ lastCall.op = "format"
    /\ Len(calls) = 6
    /\ calls[2][2] # calls[3][2]
    /\ calls[5][2] # calls[6][2]

\* C12 as claimed (Spec): parsing the formatted string of a built identifier
\* succeeds and gives the identifier back.
C12_RoundTrip ==
    lastCall.op = "parse" => (parsed.tag = "Arn" /\ parsed.arn = result.arn)

\* The raw string has five segments, the scheme first, and non-empty
\* components that pass the rule of their kind.
WellFormed(in) ==
    /\ Len(in) = 5
    /\ in[1] = <<Scheme>>
    /\ ValidFor("Domain", in[2][1])
    /\ ValidFor("Category", in[3][1])
    /\ ValidFor("Account", in[4][1])
    /\ ValidFor("Root", in[5][1])
    /\ \A i \in 2..Len(in[5]) : ValidFor("Part", in[5][i])

\* C13 (ParseSpec): parsing a well-formed string gives the identifier whose
\* domain, category and account are its second, third and fourth
\* `:`-segments, whose root is the first `/`-piece of the tail and whose
\* Parts are the remaining pieces in order, formatting to them joined by `/`.
C13_ParsePositional ==
    (lastCall.op = "parse" /\ input # <<>> /\ WellFormed(input)) =>
        /\ parsed.tag = "Arn"
        /\ parsed.arn[1].domain = input[2][1]
        /\ parsed.arn[1].category = input[3][1]
        /\ parsed.arn[1].account = input[4][1]
        /\ parsed.arn[1].root = input[5][1]
        /\ parsed.arn[1].parts = Tail(input[5])
        /\ FormatParts(parsed.arn[1].parts) = Join(Tail(input[5]), "/")

C13_Witness ==
    /\ lastCall.op = "parse"
    /\ input # <<>>
    /\ WellFormed(input)
    /\ Len(input[5]) = 3
    /\ input[5][2] # input[5][3]
    /\ input[2] # input[3]
    /\ parsed.tag = "Arn"

\* The tail of the raw string ends with `/`: its last piece is empty.
TrailingSlash(in) ==
    /\ Len(in) >= 5
    /\ Len(in[5]) >= 2
    /\ in[5][Len(in[5])] = <<>>

\* C14 (ParseSpec): parsing a string whose tail ends with `/` returns no
\* identifier, and when the string is well-formed up to its root the error
\* is the validation error of Part.
C14_TrailingSlashRejected ==
    (lastCall.op = "parse" /\ input # <<>> /\ TrailingSlash(input)) =>
        /\ parsed.tag = "Err"
        /\ (/\ Len(input) = 5
            /\ input[1] = <<Scheme>>
            /\ ValidFor("Domain", input[2][1])
            /\ ValidFor("Root", input[5][1]))
           => parsed = Err("ValidationError", "Part")

C14_Witness ==
    /\ lastCall.op = "parse"
    /\ input = <<<<Scheme>>, <<<<"a">>>>, <<<<"a">>>>, <<<<"a">>>>, <<<<"a">>, <<>>>>>>
    /\ parsed = Err("ValidationError", "Part")

\* C15 (ParseSpec): parsing a string with more than five `:`-segments fails
\* with InvalidFormat.
C15_ExtraSegments ==
    (lastCall.op = "parse" /\ input # <<>> /\ Len(input) > 5) =>
        parsed = Err("InvalidFormat", "")

C15_Witness ==
    /\ lastCall.op = "parse"
    /\ Len(input) = 6
    /\ WellFormed(SubSeq(input, 1, 5))
    /\ parsed = Err("InvalidFormat", "")

====
